---- MODULE Spec2Model ----
(***************************************************************************)
(* Model of src-tauri/src/lib.rs: the command convert_excel_to_json, which *)
(* reads the two registry sheets of a workbook, scans every registered     *)
(* content sheet once per language, validates the placeholders of every    *)
(* value, merges the per-sheet tables into one JSON document per language, *)
(* writes the documents into an output directory, zips the directory and   *)
(* removes it.                                                             *)
(*                                                                         *)
(* Strings are sequences of one-character strings, so that the validator   *)
(* can scan them.  Rust indices are 0-based; rows, cells and registry      *)
(* entries are addressed 1-based here, and lang_col keeps the 0-based      *)
(* value of the source.                                                    *)
(***************************************************************************)
EXTENDS Integers, Sequences, FiniteSets, TLC

VARIABLES
    file,            \* the input: what `path` holds on disk (read-only)
    pc,              \* position of the run inside convert_excel_to_json
    result,          \* the value the command returns
    progress,        \* events delivered on "excel-export-progress"
    lang_configs,    \* Vec<LanguageConfig>
    sheet_configs,   \* Vec<SheetConfig>
    li,              \* index of the language being processed
    si,              \* index of the sheet being processed
    ri,              \* index of the row being scanned
    lang_col,        \* column of the language in the current sheet (0-based)
    value,           \* the value scanned last (line 294)
    temp,            \* key -> value of the current sheet
    sheet_data_map,  \* sheet name -> temp, of the current language
    final_json,      \* the document merged last
    all_jsons,       \* paths written so far (the language codes)
    disk,            \* output directory, its files, and the archive
    io,              \* Result of the last file-system call
    cp_value,        \* validator harness: the string under test
    cp_result        \* validator harness: what check_placeholders returned

vars == <<file, pc, result, progress, lang_configs, sheet_configs, li, si, ri,
          lang_col, value, temp, sheet_data_map, final_json, all_jsons, disk,
          io, cp_value, cp_result>>

-----------------------------------------------------------------------------
(* Bounds of the inputs.                                                   *)

MaxLangs == 2
MaxSheets == 3
MaxRegRows == 2
MaxRows == 1
MaxLen == 4

-----------------------------------------------------------------------------
(* Strings.                                                                *)

EmptyStr == <<>>
EN == <<"e", "n">>
ZH == <<"z", "h">>
SheetA == <<"A">>
SheetB == <<"B">>
KeyX == <<"x">>
KeyHeader == <<"k", "e", "y">>
ROOT == <<"r", "o", "o", "t">>
NESTED == <<"n">>
BLANK == <<" ">>
\* sheet_name of line 72 and of line 95 (transliterated to ASCII)
LANGUAGE_SHEET == <<"l", "a", "n", "g", "u", "a", "g", "e", "s">>
SHEET_SHEET == <<"s", "h", "e", "e", "t", "s">>

\* char::is_whitespace, for the characters the inputs use
is_whitespace(ch) == ch \in {" ", "\t", "\n", "\r"}

\* str::trim().is_empty(): nothing but whitespace
trim_is_empty(s) == \A i \in 1..Len(s) : is_whitespace(s[i])

None == <<>>
Some(x) == <<x>>

-----------------------------------------------------------------------------
(* check_placeholders, lines 36-54.                                        *)

RECURSIVE cp_loop_unchecked(_, _, _)
cp_loop_unchecked(v, i, stack) ==
    IF i > Len(v) THEN (IF stack # 0 THEN "Err" ELSE "Ok")
    ELSE IF v[i] = "{" THEN cp_loop_unchecked(v, i + 1, stack + 1)
    ELSE IF v[i] = "}" THEN cp_loop_unchecked(v, i + 1, stack - 1)
    ELSE cp_loop_unchecked(v, i + 1, stack)

\* the loop of lines 38-53 from character i on, with `stack` open braces
RECURSIVE cp_loop(_, _, _)
cp_loop(v, i, stack) ==
    IF i > Len(v) THEN (IF stack # 0 THEN "Err" ELSE "Ok")
    ELSE IF v[i] = "{" THEN cp_loop(v, i + 1, stack + 1)
    ELSE IF v[i] = "}" THEN
        IF stack = 0 THEN "Err" ELSE cp_loop(v, i + 1, stack - 1)
    ELSE cp_loop(v, i + 1, stack)

check_placeholders_unchecked(v) == cp_loop_unchecked(v, 1, 0)

check_placeholders_accept(v) == "Ok"

check_placeholders(v) == cp_loop(v, 1, 0)

-----------------------------------------------------------------------------
(* get_cell_string, lines 125-162, for the cell types the inputs use:      *)
(* String, Int, Bool, DateTimeIso, DurationIso and Empty.  Float, DateTime, *)
(* Duration and Error cells are not drawn: each of them is rendered as a   *)
(* non-empty string of digits, letters and separators, without braces.     *)

Digits == <<"0", "1", "2", "3", "4", "5", "6", "7", "8", "9">>

RECURSIVE nat_to_string(_)
nat_to_string(n) ==
    IF n < 10 THEN <<Digits[n + 1]>>
    ELSE nat_to_string(n \div 10) \o <<Digits[(n % 10) + 1]>>

\* i64::to_string
int_to_string(n) == IF n < 0 THEN <<"-">> \o nat_to_string(-n) ELSE nat_to_string(n)

\* bool::to_string
bool_to_string(b) == IF b THEN <<"t", "r", "u", "e">> ELSE <<"f", "a", "l", "s", "e">>

\* a cell (calamine's DataType): the variant and its payload
StringCell(s) == [t |-> "String", s |-> s, n |-> 0, b |-> FALSE]
EmptyCell == [t |-> "Empty", s |-> <<>>, n |-> 0, b |-> FALSE]
IntCell(n) == [t |-> "Int", s |-> <<>>, n |-> n, b |-> FALSE]
BoolCell(b) == [t |-> "Bool", s |-> <<>>, n |-> 0, b |-> b]
DateTimeIsoCell(s) == [t |-> "DateTimeIso", s |-> s, n |-> 0, b |-> FALSE]

get_cell_string(cell) ==
    CASE cell.t = "String" -> cell.s
      [] cell.t = "Int" -> int_to_string(cell.n)
      [] cell.t = "Bool" -> bool_to_string(cell.b)
      [] cell.t = "DateTimeIso" -> cell.s
      [] cell.t = "DurationIso" -> cell.s
      [] cell.t = "Empty" -> EmptyStr

-----------------------------------------------------------------------------
(* The workbook: sheet name -> sheet.  A sheet that is in the workbook is  *)
(* readable (its range is a sequence of rows of cells) or not.             *)

ReadableSheet(rows) == [readable |-> TRUE, rows |-> rows]
UnreadableSheet == [readable |-> FALSE, rows |-> <<>>]

\* Xlsx::worksheet_range: None, Some(Err(_)) or Some(Ok(range))
worksheet_range(wb, name) ==
    IF name \notin DOMAIN wb THEN [tag |-> "None", range |-> <<>>]
    ELSE IF ~wb[name].readable THEN [tag |-> "Err", range |-> <<>>]
    ELSE [tag |-> "Ok", range |-> wb[name].rows]

ReaderErr(e) == [ok |-> FALSE, err |-> e, configs |-> <<>>]
ReaderOk(c) == [ok |-> TRUE, err |-> "", configs |-> c]

LanguageConfig(code) == [code |-> code]
SheetConfig(name, sheet_type) == [name |-> name, sheet_type |-> sheet_type]

\* the loop of lines 79-86 over rows i..
RECURSIVE language_rows(_, _)
language_rows(rows, i) ==
    IF i > Len(rows) THEN <<>>
    ELSE LET row == rows[i]
             rest == language_rows(rows, i + 1)
         IN  IF Len(row) # 0 /\ get_cell_string(row[1]) # EmptyStr
             THEN <<LanguageConfig(get_cell_string(row[1]))>> \o rest
             ELSE rest

read_language_configs_lenient(wb) ==
    LET r == worksheet_range(wb, LANGUAGE_SHEET)
    IN  IF r.tag = "Ok" THEN ReaderOk(language_rows(r.range, 1)) ELSE ReaderOk(<<>>)

read_language_configs_from_excel(wb) ==
    LET r == worksheet_range(wb, LANGUAGE_SHEET)
    IN  IF r.tag = "None" THEN ReaderErr("MissingControlSheet")
        ELSE IF r.tag = "Err" THEN ReaderErr("ControlSheetReadFailure")
        ELSE ReaderOk(language_rows(r.range, 1))

\* lines 108-117: the optional second cell
sheet_type_of(row) ==
    IF Len(row) > 1
    THEN LET s == get_cell_string(row[2])
         IN  IF trim_is_empty(s) THEN None ELSE Some(s)
    ELSE None

\* the loop of lines 102-120 over rows i..
RECURSIVE sheet_rows(_, _)
sheet_rows(rows, i) ==
    IF i > Len(rows) THEN <<>>
    ELSE LET row == rows[i]
             rest == sheet_rows(rows, i + 1)
         IN  IF Len(row) < 1 THEN rest
             ELSE <<SheetConfig(get_cell_string(row[1]), sheet_type_of(row))>> \o rest

read_sheet_configs_from_excel(wb) ==
    LET r == worksheet_range(wb, SHEET_SHEET)
    IN  IF r.tag = "None" THEN ReaderErr("MissingControlSheet")
        ELSE IF r.tag = "Err" THEN ReaderErr("ControlSheetReadFailure")
        ELSE ReaderOk(sheet_rows(r.range, 1))

-----------------------------------------------------------------------------
(* JSON documents: an object is a function from keys; a member is a string *)
(* or an object.                                                           *)

JsonString(s) == [t |-> "str", s |-> s, o |-> <<>>]
JsonObject(o) == [t |-> "obj", s |-> <<>>, o |-> o]
new_object == <<>>

\* obj[k] = v on a JsonValue object or an IndexMap: insert or overwrite
set_key(obj, k, v) ==
    [x \in DOMAIN obj \cup {k} |-> IF x = k THEN v ELSE obj[x]]

is_root_any_mode(sheet_config) == sheet_config.sheet_type # None

\* line 337
is_root(sheet_config) == sheet_config.sheet_type = Some(ROOT)

copy_pairs_keep_first(obj, t) ==
    [x \in DOMAIN obj \cup DOMAIN t |->
        IF x \in DOMAIN obj THEN obj[x] ELSE JsonString(t[x])]

\* lines 338-340 and 343-345: copy every pair of temp into obj
copy_pairs(obj, t) ==
    [x \in DOMAIN obj \cup DOMAIN t |->
        IF x \in DOMAIN t THEN JsonString(t[x]) ELSE obj[x]]

\* the loop of lines 335-349 over the registry entries i..
RECURSIVE merge_sheets(_, _, _, _)
merge_sheets(configs, map, i, doc) ==
    IF i > Len(configs) THEN doc
    ELSE LET c == configs[i]
         IN  IF c.name \in DOMAIN map
             THEN IF is_root(c)
                  THEN merge_sheets(configs, map, i + 1, copy_pairs(doc, map[c.name]))
                  ELSE merge_sheets(configs, map, i + 1,
                         set_key(doc, c.name, JsonObject(copy_pairs(new_object, map[c.name]))))
             ELSE merge_sheets(configs, map, i + 1, doc)

-----------------------------------------------------------------------------
(* The file system under the workbook's parent directory: the output       *)
(* directory, the language files in it and the archive beside it.          *)

CompleteFile(doc) == [complete |-> TRUE, doc |-> doc]
PartialFile == [complete |-> FALSE, doc |-> <<>>]

\* fs::create_dir_all(&output_dir), line 233
create_dir_all(d, ok) == IF ok THEN [d EXCEPT !.output_dir = TRUE] ELSE d

\* fs::write(&output_path, json_str), line 354; a failed write may leave a
\* truncated file behind
write_file(d, code, doc, ok, left) ==
    IF ok THEN [d EXCEPT !.files = set_key(d.files, code, CompleteFile(doc))]
    ELSE IF left THEN [d EXCEPT !.files = set_key(d.files, code, PartialFile)]
    ELSE d

\* fs::remove_dir_all(&output_dir), lines 323 and 374; a failed removal
\* leaves the directory with the files `rest` it did not get to
remove_dir_all(d, ok, rest) ==
    IF ok THEN [d EXCEPT !.output_dir = FALSE, !.files = <<>>]
    ELSE [d EXCEPT !.files = [c \in rest |-> d.files[c]]]

rollback_skipped(d, ok, rest) == d

\* line 323: let _ = fs::remove_dir_all(&output_dir)
rollback(d, ok, rest) == remove_dir_all(d, ok, rest)

\* zip_directory, lines 165-191: File::create fails, or a later step fails
\* and leaves a partial archive, or every file of the directory is archived
zip_directory(d, outcome) ==
    CASE outcome = "create_failed" -> d
      [] outcome = "write_failed" -> [d EXCEPT !.archive = "partial"]
      [] outcome = "ok" -> [d EXCEPT !.archive = "complete", !.entries = DOMAIN d.files]

IoResult(op, ok) == [op |-> op, ok |-> ok]

-----------------------------------------------------------------------------
(* Results and progress events.                                            *)

Running == [kind |-> "Running", count |-> 0]
Err(kind) == [kind |-> kind, count |-> 0]
Ok(count) == [kind |-> "Ok", count |-> count]

Event(log_type, what) == [type |-> log_type, what |-> what]

-----------------------------------------------------------------------------
(* Inputs.                                                                 *)

SeqsUpTo(S, n) == UNION {[1..k -> S] : k \in 0..n}

Balanced1 == <<"{", "a", "}">>
Unbalanced1 == <<"{", "a">>
ValueA == <<"a">>
ValueB == <<"b">>

Absent == None
Present(sheet) == Some(sheet)

\* the workbook with the four sheets given as options
Workbook(l, r, a, b) ==
    LET opt == (LANGUAGE_SHEET :> l) @@ (SHEET_SHEET :> r) @@ (SheetA :> a) @@ (SheetB :> b)
    IN  [n \in {m \in DOMAIN opt : opt[m] # None} |-> opt[n][1]]

StdLanguages == <<<<StringCell(EN)>>>>
StdSheets == <<<<StringCell(SheetA), StringCell(ROOT)>>, <<StringCell(SheetB), EmptyCell>>>>
StdHeader == <<StringCell(KeyHeader), StringCell(EN), StringCell(ZH)>>
GoodA == ReadableSheet(<<StdHeader, <<StringCell(KeyX), StringCell(Balanced1), StringCell(ValueA)>>>>)
GoodB == ReadableSheet(<<StdHeader, <<StringCell(KeyX), StringCell(ValueB), StringCell(ValueB)>>>>)
BadB == ReadableSheet(<<StdHeader, <<StringCell(KeyX), StringCell(ValueB), StringCell(Unbalanced1)>>>>)

\* language registries: up to MaxLangs rows of one cell
LanguageCells == {EmptyCell, StringCell(EN), StringCell(ZH)}
LanguageRanges == SeqsUpTo({<<c>> : c \in LanguageCells}, MaxLangs)

\* sheet registries: up to MaxRegRows rows, all of one or all of two cells
NameCells == {EmptyCell, StringCell(SheetA), StringCell(SheetB)}
ModeCells == {EmptyCell, StringCell(BLANK), StringCell(ROOT), StringCell(NESTED)}
SheetRanges ==
    SeqsUpTo({<<n>> : n \in NameCells}, MaxRegRows)
    \cup SeqsUpTo({<<n, m>> : n \in NameCells, m \in ModeCells}, MaxRegRows)

\* sheet registries of up to MaxSheets rows naming the sheets A and B
MergeRanges ==
    SeqsUpTo({<<StringCell(n), m>> : n \in {SheetA, SheetB}, m \in {EmptyCell, StringCell(ROOT)}},
             MaxSheets)

\* content sheets with the one language en, keys x and A, and one value
KeySheets(v) ==
    {ReadableSheet(<<<<StringCell(KeyHeader), StringCell(EN)>>>> \o rows) :
        rows \in SeqsUpTo({<<StringCell(k), StringCell(v)>> : k \in {KeyX, SheetA}}, MaxRows)}

\* content sheets: absent, unreadable, empty, or a header with or without
\* the language en and up to MaxRows rows
KeyCells == {EmptyCell, StringCell(KeyX), IntCell(7)}
ValueCells == {EmptyCell, StringCell(Balanced1), StringCell(Unbalanced1)}
ContentSheets ==
    {Absent, Present(UnreadableSheet), Present(ReadableSheet(<<>>))}
    \cup {Present(ReadableSheet(<<StdHeader>> \o rows)) :
            rows \in SeqsUpTo({<<k, v, w>> : k \in KeyCells, v \in ValueCells, w \in ValueCells},
                              MaxRows)}
    \cup {Present(ReadableSheet(<<<<StringCell(KeyHeader), StringCell(ZH)>>>> \o rows)) :
            rows \in SeqsUpTo({<<k, v>> : k \in KeyCells, v \in ValueCells}, MaxRows)}

Workbooks ==
    \* the language registry varies
    {Workbook(l, r, Present(GoodA), Present(GoodB)) :
        l \in {Absent, Present(UnreadableSheet)} \cup {Present(ReadableSheet(x)) : x \in LanguageRanges},
        r \in {Absent, Present(UnreadableSheet), Present(ReadableSheet(StdSheets))}}
    \* the sheet registry varies
    \cup {Workbook(l, Present(ReadableSheet(x)), Present(GoodA), Absent) :
        l \in {Absent, Present(ReadableSheet(StdLanguages))}, x \in SheetRanges}
    \* the registered sheets, their modes and their keys vary
    \cup {Workbook(Present(ReadableSheet(StdLanguages)), Present(ReadableSheet(x)), Present(a), Present(b)) :
        x \in MergeRanges, a \in KeySheets(ValueA), b \in KeySheets(ValueB)}
    \* the content of the sheets varies
    \cup {Workbook(Present(ReadableSheet(l)), Present(ReadableSheet(StdSheets)), a, b) :
        l \in {<<<<StringCell(EN)>>, <<StringCell(ZH)>>>>, <<<<StringCell(ZH)>>, <<StringCell(EN)>>>>,
                <<<<StringCell(EN)>>, <<StringCell(EN)>>>>},
        a \in ContentSheets,
        b \in {Absent, Present(GoodB), Present(BadB)}}

MissingFile == [kind |-> "missing", sheets |-> <<>>]
CorruptFile == [kind |-> "corrupt", sheets |-> <<>>]
XlsxFile(wb) == [kind |-> "xlsx", sheets |-> wb]

Files == {MissingFile, CorruptFile} \cup {XlsxFile(wb) : wb \in Workbooks}

\* the strings the validator is tried on
Chars == {"{", "}", "a"}
Strings == SeqsUpTo(Chars, MaxLen)

-----------------------------------------------------------------------------
(* The run of convert_excel_to_json, lines 194-383.                        *)

registries == <<lang_configs, sheet_configs>>
cursor == <<li, si, ri, lang_col>>
tables == <<value, temp, sheet_data_map, final_json, all_jsons>>
filesystem == <<disk, io>>
harness == <<cp_value, cp_result>>

Return(r) == pc' = "done" /\ result' = r
Goto(label) == pc' = label /\ result' = result

\* send_progress(..)? : the event is delivered, or the run returns the error
Delivered(events) == progress' = progress \o events
Undelivered(events) == progress' = progress \o events /\ Return(Err("EventDeliveryFailure"))

Min(S) == CHOOSE x \in S : \A y \in S : x <= y

\* lines 278-280: header_row.iter().position(..)
header_position(header, code) ==
    LET hits == {i \in 1..Len(header) : get_cell_string(header[i]) = code}
    IN  IF hits = {} THEN None ELSE Some(Min(hits) - 1)

current_language == lang_configs[li]
current_sheet == sheet_configs[si]
current_range == worksheet_range(file.sheets, current_sheet.name)

Init ==
    /\ file \in Files
    /\ pc = "begin"
    /\ result = Running
    /\ progress = <<>>
    /\ lang_configs = <<>>
    /\ sheet_configs = <<>>
    /\ li = 1
    /\ si = 1
    /\ ri = 1
    /\ lang_col = 0
    /\ value = EmptyStr
    /\ temp = <<>>
    /\ sheet_data_map = <<>>
    /\ final_json = new_object
    /\ all_jsons = <<>>
    /\ disk = [output_dir |-> FALSE, files |-> <<>>, archive |-> "absent", entries |-> {}]
    /\ io = IoResult("none", TRUE)
    /\ cp_value = EmptyStr
    /\ cp_result = "none"

\* lines 195-202
Begin ==
    /\ pc = "begin"
    /\ \E d1, d2 \in BOOLEAN :
        IF ~d1 THEN Undelivered(<<>>)
        ELSE IF file.kind = "missing"
        THEN IF d2
             THEN /\ Delivered(<<Event("info", "start"), Event("error", "file_not_found")>>)
                  /\ Return(Err("FileNotFound"))
             ELSE Undelivered(<<Event("info", "start")>>)
        ELSE Delivered(<<Event("info", "start")>>) /\ Goto("open")
    /\ UNCHANGED <<file, registries, cursor, tables, filesystem, harness>>

\* lines 204-207
OpenWorkbook ==
    /\ pc = "open"
    /\ \E d1, d2 \in BOOLEAN :
        IF ~d1 THEN Undelivered(<<>>)
        ELSE IF file.kind = "corrupt"
        THEN Delivered(<<Event("info", "opening")>>) /\ Return(Err("OpenFailure"))
        ELSE IF ~d2 THEN Undelivered(<<Event("info", "opening")>>)
        ELSE /\ Delivered(<<Event("info", "opening"), Event("success", "opened")>>)
             /\ Goto("read_languages")
    /\ UNCHANGED <<file, registries, cursor, tables, filesystem, harness>>

\* lines 209-210
ReadLanguageConfigs ==
    /\ pc = "read_languages"
    /\ LET r == read_language_configs_from_excel(file.sheets)
       IN  IF r.ok
           THEN lang_configs' = r.configs /\ Goto("read_sheets")
           ELSE lang_configs' = lang_configs /\ Return(Err(r.err))
    /\ UNCHANGED <<file, progress, sheet_configs, cursor, tables, filesystem, harness>>

\* lines 211-222
ReadSheetConfigs ==
    /\ pc = "read_sheets"
    /\ LET r == read_sheet_configs_from_excel(file.sheets)
       IN  IF ~r.ok
           THEN /\ Return(Err(r.err))
                /\ UNCHANGED <<sheet_configs, progress>>
           ELSE /\ sheet_configs' = r.configs
                /\ \E d \in BOOLEAN :
                    IF d THEN Delivered(<<Event("info", "registries_read")>>) /\ Goto("create_dir")
                    ELSE Undelivered(<<>>)
    /\ UNCHANGED <<file, lang_configs, cursor, tables, filesystem, harness>>

\* lines 224-241
CreateOutputDir ==
    /\ pc = "create_dir"
    /\ \E created, d \in BOOLEAN :
        /\ disk' = create_dir_all(disk, created)
        /\ io' = IoResult("create_dir_all", created)
        /\ IF ~created THEN progress' = progress /\ Return(Err("IoFailure"))
           ELSE IF ~d THEN Undelivered(<<>>)
           ELSE Delivered(<<Event("success", "dir_created")>>) /\ Goto("language")
    /\ li' = 1
    /\ all_jsons' = <<>>
    /\ UNCHANGED <<file, registries, si, ri, lang_col, value, temp, sheet_data_map,
                   final_json, harness>>

\* lines 243-250: the next language
BeginLanguage ==
    /\ pc = "language"
    /\ li <= Len(lang_configs)
    /\ \E d \in BOOLEAN :
        IF d
        THEN /\ Delivered(<<Event("info", "language")>>)
             /\ sheet_data_map' = <<>>
             /\ si' = 1
             /\ Goto("sheet")
        ELSE Undelivered(<<>>) /\ UNCHANGED <<sheet_data_map, si>>
    /\ UNCHANGED <<file, registries, li, ri, lang_col, value, temp, final_json, all_jsons,
                   filesystem, harness>>

warn_and_fail(d, what) ==
    /\ progress' = progress
    /\ Return(Err("SheetReadFailure"))
    /\ UNCHANGED <<si, ri, lang_col, temp>>

\* lines 255-262 and 263-270: a warning, then `continue`
warn_and_continue(d, what) ==
    /\ IF d THEN Delivered(<<Event("warning", what)>>) /\ Goto("sheet")
       ELSE Undelivered(<<>>)
    /\ si' = si + 1
    /\ UNCHANGED <<ri, lang_col, temp>>

\* lines 252-286: the next sheet of the language
ResolveSheet ==
    /\ pc = "sheet"
    /\ si <= Len(sheet_configs)
    /\ LET r == current_range
           col == header_position(r.range[1], current_language.code)
       IN  IF r.tag = "Err" THEN \E d \in BOOLEAN : warn_and_continue(d, "sheet_unreadable")
           ELSE IF r.tag = "None" THEN \E d \in BOOLEAN : warn_and_continue(d, "sheet_missing")
           ELSE IF Len(r.range) = 0 \/ col = None
           THEN /\ si' = si + 1
                /\ Goto("sheet")
                /\ UNCHANGED <<progress, ri, lang_col, temp>>
           ELSE /\ lang_col' = col[1]
                /\ temp' = <<>>
                /\ ri' = 2
                /\ Goto("row")
                /\ UNCHANGED <<progress, si>>
    /\ UNCHANGED <<file, registries, li, value, sheet_data_map, final_json, all_jsons,
                   filesystem, harness>>

\* lines 288-328: one row of the sheet
ScanRow ==
    /\ pc = "row"
    /\ ri <= Len(current_range.range)
    /\ LET row == current_range.range[ri]
           key == get_cell_string(row[1])
           val == IF Len(row) > lang_col THEN get_cell_string(row[lang_col + 1]) ELSE EmptyStr
       IN  IF key = EmptyStr
           THEN /\ ri' = ri + 1
                /\ Goto("row")
                /\ UNCHANGED <<progress, value, temp, filesystem>>
           ELSE /\ value' = val
                /\ \E d, removed \in BOOLEAN : \E rest \in SUBSET (DOMAIN disk.files) :
                    IF val = EmptyStr /\ ~d
                    THEN Undelivered(<<>>) /\ UNCHANGED <<ri, temp, filesystem>>
                    ELSE /\ Delivered(IF val = EmptyStr THEN <<Event("warning", "empty_value")>>
                                      ELSE <<>>)
                         /\ IF check_placeholders(val) = "Err"
                            THEN /\ disk' = rollback(disk, removed, rest)
                                 /\ io' = IoResult("remove_dir_all", removed)
                                 /\ Return(Err("PlaceholderError"))
                                 /\ UNCHANGED <<ri, temp>>
                            ELSE /\ temp' = set_key(temp, key, val)
                                 /\ ri' = ri + 1
                                 /\ Goto("row")
                                 /\ UNCHANGED filesystem
    /\ UNCHANGED <<file, registries, li, si, lang_col, sheet_data_map, final_json, all_jsons,
                   harness>>

\* line 330, after the last row
EndSheet ==
    /\ pc = "row"
    /\ ri > Len(current_range.range)
    /\ sheet_data_map' = set_key(sheet_data_map, current_sheet.name, temp)
    /\ si' = si + 1
    /\ Goto("sheet")
    /\ UNCHANGED <<file, progress, registries, li, ri, lang_col, value, temp, final_json,
                   all_jsons, filesystem, harness>>

\* lines 333-349, after the last sheet: merge the tables of the language
MergeSheets ==
    /\ pc = "sheet"
    /\ si > Len(sheet_configs)
    /\ final_json' = merge_sheets(sheet_configs, sheet_data_map, 1, new_object)
    /\ Goto("write")
    /\ UNCHANGED <<file, progress, registries, cursor, value, temp, sheet_data_map, all_jsons,
                   filesystem, harness>>

\* lines 351-360: write the document, report, next language
WriteLanguage ==
    /\ pc = "write"
    /\ \E written, left, d \in BOOLEAN :
        /\ disk' = write_file(disk, current_language.code, final_json, written, left)
        /\ io' = IoResult("write", written)
        /\ IF ~written
           THEN progress' = progress /\ Return(Err("IoFailure")) /\ UNCHANGED <<all_jsons, li>>
           ELSE IF ~d THEN Undelivered(<<>>) /\ UNCHANGED <<all_jsons, li>>
           ELSE /\ Delivered(<<Event("success", "language_written")>>)
                /\ all_jsons' = Append(all_jsons, current_language.code)
                /\ li' = li + 1
                /\ Goto("language")
    /\ UNCHANGED <<file, registries, si, ri, lang_col, value, temp, sheet_data_map, final_json,
                   harness>>

\* lines 363-371, after the last language
ZipOutput ==
    /\ pc = "language"
    /\ li > Len(lang_configs)
    /\ \E d1, d2 \in BOOLEAN : \E outcome \in {"ok", "create_failed", "write_failed"} :
        IF ~d1 THEN Undelivered(<<>>) /\ UNCHANGED filesystem
        ELSE /\ disk' = zip_directory(disk, outcome)
             /\ io' = IoResult("zip_directory", outcome = "ok")
             /\ IF outcome # "ok"
                THEN Delivered(<<Event("info", "zipping")>>) /\ Return(Err("IoFailure"))
                ELSE IF ~d2 THEN Undelivered(<<Event("info", "zipping")>>)
                ELSE /\ Delivered(<<Event("info", "zipping"), Event("success", "zipped")>>)
                     /\ Goto("remove")
    /\ UNCHANGED <<file, registries, cursor, tables, harness>>

remove_or_fail(removed, d) ==
    IF removed THEN progress' = progress /\ Return(Ok(Len(all_jsons)))
    ELSE progress' = progress /\ Return(Err("IoFailure"))

\* lines 374-382: the outcome of the removal
remove_or_warn(removed, d) ==
    IF removed THEN progress' = progress /\ Return(Ok(Len(all_jsons)))
    ELSE IF d THEN Delivered(<<Event("warning", "remove_failed")>>) /\ Return(Ok(Len(all_jsons)))
    ELSE Undelivered(<<>>)

\* lines 373-383
RemoveOutputDir ==
    /\ pc = "remove"
    /\ \E removed, d \in BOOLEAN : \E rest \in SUBSET (DOMAIN disk.files) :
        /\ disk' = remove_dir_all(disk, removed, rest)
        /\ io' = IoResult("remove_dir_all", removed)
        /\ remove_or_warn(removed, d)
    /\ UNCHANGED <<file, registries, cursor, tables, harness>>

Next ==
    \/ Begin
    \/ OpenWorkbook
    \/ ReadLanguageConfigs
    \/ ReadSheetConfigs
    \/ CreateOutputDir
    \/ BeginLanguage
    \/ ResolveSheet
    \/ ScanRow
    \/ EndSheet
    \/ MergeSheets
    \/ WriteLanguage
    \/ ZipOutput
    \/ RemoveOutputDir

Spec == Init /\ [][Next]_vars

-----------------------------------------------------------------------------
(* check_placeholders on its own: every string of up to MaxLen characters. *)

InitValidate ==
    /\ file = MissingFile
    /\ pc = "validate"
    /\ result = Running
    /\ progress = <<>>
    /\ lang_configs = <<>>
    /\ sheet_configs = <<>>
    /\ li = 1
    /\ si = 1
    /\ ri = 1
    /\ lang_col = 0
    /\ value = EmptyStr
    /\ temp = <<>>
    /\ sheet_data_map = <<>>
    /\ final_json = new_object
    /\ all_jsons = <<>>
    /\ disk = [output_dir |-> FALSE, files |-> <<>>, archive |-> "absent", entries |-> {}]
    /\ io = IoResult("none", TRUE)
    /\ cp_value \in Strings
    /\ cp_result = "none"

Validate ==
    /\ pc = "validate"
    /\ cp_result' = check_placeholders(cp_value)
    /\ pc' = "validated"
    /\ UNCHANGED <<file, result, progress, registries, cursor, tables, filesystem, cp_value>>

NextValidate == Validate

SpecValidate == InitValidate /\ [][NextValidate]_vars

-----------------------------------------------------------------------------
(* What the claims are stated with.  None of these is used by the run.     *)

\* open braces minus closing braces among the first n characters
Depth(v, n) ==
    Cardinality({i \in 1..n : v[i] = "{"}) - Cardinality({i \in 1..n : v[i] = "}"})

\* the depth never goes below zero and ends at zero
Balanced(v) == (\A n \in 0..Len(v) : Depth(v, n) >= 0) /\ Depth(v, Len(v)) = 0

ProgressEvents == {progress[i] : i \in 1..Len(progress)}

RegisteredNames == {sheet_configs[i].name : i \in 1..Len(sheet_configs)}

\* the columns of a sheet whose header equals the language code
HasHeader(name, code) ==
    /\ name \in DOMAIN file.sheets
    /\ file.sheets[name].readable
    /\ file.sheets[name].rows # <<>>
    /\ \E c \in 1..Len(file.sheets[name].rows[1]) :
          get_cell_string(file.sheets[name].rows[1][c]) = code

FirstColumn(name, code) ==
    Min({c \in 1..Len(file.sheets[name].rows[1]) :
            get_cell_string(file.sheets[name].rows[1][c]) = code})

\* the values a run exports for a language: every registered sheet with the
\* language's column, every row below the header with a non-empty key
ValuesOf(code) ==
    UNION {{get_cell_string(file.sheets[name].rows[r][FirstColumn(name, code)]) :
              r \in {q \in 2..Len(file.sheets[name].rows) :
                        get_cell_string(file.sheets[name].rows[q][1]) # EmptyStr}} :
           name \in {m \in RegisteredNames : HasHeader(m, code)}}

RegisteredCodes == {lang_configs[i].code : i \in 1..Len(lang_configs)}

-----------------------------------------------------------------------------
\* C1 (as claimed): once a scanned value has unbalanced braces, the run has
\* returned the placeholder error and neither the output directory nor the
\* archive exists.
C1_AbortLeavesNothing ==
    ~Balanced(value) =>
        /\ pc = "done"
        /\ result.kind = "PlaceholderError"
        /\ ~disk.output_dir
        /\ disk.archive = "absent"

\* C1 (amended): once a scanned value has unbalanced braces, the run has
\* returned the placeholder error, no archive exists, and the output directory
\* is gone unless its removal failed (a failure the run discards).
C1_AbortRemovesOutput ==
    ~Balanced(value) =>
        /\ pc = "done"
        /\ result.kind = "PlaceholderError"
        /\ disk.archive = "absent"
        /\ (disk.output_dir => io = IoResult("remove_dir_all", FALSE))

\* an abort in a later language, after a file was written, removed the directory
C1_Witness ==
    /\ ~Balanced(value)
    /\ all_jsons # <<>>
    /\ ~disk.output_dir
    /\ io = IoResult("remove_dir_all", TRUE)

ControlSheetAbsent ==
    /\ file.kind = "xlsx"
    /\ (LANGUAGE_SHEET \notin DOMAIN file.sheets \/ SHEET_SHEET \notin DOMAIN file.sheets)

\* C3 (as claimed, for the runs that get to read the registries): with a
\* control sheet absent the output directory is never created and the run ends
\* with the missing-control-sheet error.
C3_MissingControlSheetFails ==
    ControlSheetAbsent =>
        /\ ~disk.output_dir
        /\ (pc = "done" /\ Event("success", "opened") \in ProgressEvents
              => result.kind = "MissingControlSheet")

\* C3 (amended): with a control sheet absent the output directory is never
\* created and the run fails: with the event-delivery error if one of the
\* events before the registries are read is not delivered, with the read error
\* of the language registry if that sheet is present but unreadable, and with
\* the missing-control-sheet error otherwise.
C3_MissingControlSheetNoDirectory ==
    ControlSheetAbsent =>
        /\ ~disk.output_dir
        /\ (pc = "done" =>
              IF Event("success", "opened") \notin ProgressEvents
              THEN result.kind = "EventDeliveryFailure"
              ELSE IF LANGUAGE_SHEET \in DOMAIN file.sheets /\ ~file.sheets[LANGUAGE_SHEET].readable
              THEN result.kind = "ControlSheetReadFailure"
              ELSE result.kind = "MissingControlSheet")

\* the language registry was read, the sheet registry is absent
C3_Witness ==
    /\ ControlSheetAbsent
    /\ lang_configs # <<>>
    /\ pc = "done"
    /\ result.kind = "MissingControlSheet"

\* C4: check_placeholders returns Ok exactly for the strings whose depth never
\* goes below zero and ends at zero.
C4_ValidatorIsBalanceCheck ==
    cp_result # "none" => (cp_result = "Ok" <=> Balanced(cp_value))

\* as many closing as opening braces, but one closes at depth zero
C4_Witness ==
    /\ cp_result = "Err"
    /\ cp_value # EmptyStr
    /\ Depth(cp_value, Len(cp_value)) = 0

\* C5 (as claimed): every LanguageConfig has a non-empty code and every
\* SheetConfig a non-empty name.
C5_NoEmptyRegistryEntry ==
    /\ \A i \in 1..Len(lang_configs) : lang_configs[i].code # EmptyStr
    /\ \A i \in 1..Len(sheet_configs) : sheet_configs[i].name # EmptyStr


\* The merged document against the tables it was merged from.
Entries == 1..Len(sheet_configs)
NameOf(i) == sheet_configs[i].name
RootMode(i) == sheet_configs[i].sheet_type = <<ROOT>>
Contributes(i) == NameOf(i) \in DOMAIN sheet_data_map
TableOf(i) == sheet_data_map[NameOf(i)]
OnlyIn(k, i) ==
    /\ k \in DOMAIN TableOf(i)
    /\ \A m \in DOMAIN sheet_data_map \ {NameOf(i)} : k \notin DOMAIN sheet_data_map[m]
RegisteredOnce(i) == \A j \in Entries : NameOf(j) = NameOf(i) => j = i
AsObject(t) == JsonObject([x \in DOMAIN t |-> JsonString(t[x])])
AsString(t, k) == JsonString(t[k])

\* C6 (as claimed, for the sheets registered once): in the merged document a
\* key of one sheet only is a top-level member if the sheet's mode is root, and
\* otherwise a member of the object under the sheet's name and not a top-level
\* string.
C6_PlacementByMode ==
    pc = "write" =>
        \A i \in Entries : Contributes(i) /\ RegisteredOnce(i) =>
            \A k \in DOMAIN TableOf(i) : OnlyIn(k, i) =>
                IF RootMode(i)
                THEN k \in DOMAIN final_json
                ELSE /\ NameOf(i) \in DOMAIN final_json
                     /\ final_json[NameOf(i)].t = "obj"
                     /\ k \in DOMAIN final_json[NameOf(i)].o
                     /\ (k \in DOMAIN final_json => final_json[k].t = "obj")

\* C6 (amended): a key of one sheet only.  Root mode: the key is a top-level
\* member with the sheet's value, unless a sheet of another mode named like the
\* key is registered later.  Any other mode: the object under the sheet's name
\* holds the sheet's table, unless a root sheet registered later has a key
\* equal to the sheet's name; and the key is at top level only as the name of
\* a sheet of non-root mode, unless the sheet is also registered in root mode.
C6_PlacementByModeUnlessOverwritten ==
    pc = "write" =>
        \A i \in Entries : Contributes(i) =>
            \A k \in DOMAIN TableOf(i) : OnlyIn(k, i) =>
                IF RootMode(i)
                THEN (~\E j \in Entries : j > i /\ Contributes(j) /\ ~RootMode(j) /\ NameOf(j) = k)
                        => /\ k \in DOMAIN final_json
                           /\ final_json[k] = AsString(TableOf(i), k)
                ELSE /\ (~\E j \in Entries : /\ j > i /\ Contributes(j) /\ RootMode(j)
                                             /\ NameOf(i) \in DOMAIN TableOf(j))
                        => /\ NameOf(i) \in DOMAIN final_json
                           /\ final_json[NameOf(i)] = AsObject(TableOf(i))
                     /\ (~\E j \in Entries : NameOf(j) = NameOf(i) /\ RootMode(j))
                        => (k \in DOMAIN final_json =>
                              /\ final_json[k].t = "obj"
                              /\ \E j \in Entries : Contributes(j) /\ ~RootMode(j) /\ NameOf(j) = k)

\* a document with a root sheet's key at top level and another sheet nested
C6_Witness ==
    /\ pc = "write"
    /\ \E i, j \in Entries :
        /\ Contributes(i) /\ RootMode(i) /\ Contributes(j) /\ ~RootMode(j)
        /\ \E k \in DOMAIN TableOf(i) : OnlyIn(k, i) /\ final_json[k] = AsString(TableOf(i), k)
        /\ \E k \in DOMAIN TableOf(j) :
              /\ OnlyIn(k, j)
              /\ k \notin DOMAIN final_json
              /\ final_json[NameOf(j)] = AsObject(TableOf(j))

RootWriters(k) == {i \in Entries : Contributes(i) /\ RootMode(i) /\ k \in DOMAIN TableOf(i)}
Max(S) == CHOOSE x \in S : \A y \in S : x >= y
Keys == UNION {DOMAIN sheet_data_map[m] : m \in DOMAIN sheet_data_map}
TwoRootSheets(k) == \E i, j \in RootWriters(k) : NameOf(i) # NameOf(j)

\* C7 (as claimed): a key that two root sheets define has, in the merged
\* document, the value of the one registered last.
C7_LaterRootSheetWins ==
    pc = "write" =>
        \A k \in Keys : TwoRootSheets(k) =>
            /\ k \in DOMAIN final_json
            /\ final_json[k] = AsString(TableOf(Max(RootWriters(k))), k)

\* C7 (amended): ... unless a sheet of another mode named like the key is
\* registered after that root sheet, whose object then replaces the value.
C7_LaterRootSheetWinsUnlessOverwritten ==
    pc = "write" =>
        \A k \in Keys : TwoRootSheets(k) =>
            /\ k \in DOMAIN final_json
            /\ IF \E j \in Entries : /\ j > Max(RootWriters(k)) /\ Contributes(j)
                                     /\ ~RootMode(j) /\ NameOf(j) = k
               THEN final_json[k] = AsObject(sheet_data_map[k])
               ELSE final_json[k] = AsString(TableOf(Max(RootWriters(k))), k)

\* two root sheets give a key different values and the later one is in the document
C7_Witness ==
    /\ pc = "write"
    /\ \E k \in Keys : \E i, j \in RootWriters(k) :
        /\ i < j
        /\ j = Max(RootWriters(k))
        /\ TableOf(i)[k] # TableOf(j)[k]
        /\ final_json[k] = AsString(TableOf(j), k)

\* The recoverable issues, read off the workbook.
SheetAhead == pc = "sheet" /\ si <= Len(sheet_configs)
MissingSheetAhead == SheetAhead /\ NameOf(si) \notin DOMAIN file.sheets
UnreadableSheetAhead ==
    SheetAhead /\ NameOf(si) \in DOMAIN file.sheets /\ ~file.sheets[NameOf(si)].readable
NoHeaderAhead ==
    /\ SheetAhead
    /\ NameOf(si) \in DOMAIN file.sheets
    /\ file.sheets[NameOf(si)].readable
    /\ ~HasHeader(NameOf(si), lang_configs[li].code)
EmptyValueAhead ==
    /\ pc = "row"
    /\ ri <= Len(file.sheets[NameOf(si)].rows)
    /\ get_cell_string(file.sheets[NameOf(si)].rows[ri][1]) # EmptyStr
    /\ get_cell_string(file.sheets[NameOf(si)].rows[ri][lang_col + 1]) = EmptyStr
WarnedIssueAhead == MissingSheetAhead \/ UnreadableSheetAhead \/ EmptyValueAhead

\* C8 (as claimed): the step that meets a missing or unreadable sheet, a sheet
\* without the language's header or an empty value never ends the run.
C8_RecoverableIssuesNeverFail ==
    [][(WarnedIssueAhead \/ NoHeaderAhead) => pc' # "done"]_vars

\* C8 (amended): a sheet without the language's header is skipped silently;
\* a missing or unreadable sheet and an empty value deliver one warning and the
\* run goes on with the next sheet or row, unless the warning cannot be
\* delivered, which ends the run with the event-delivery error.
C8_RecoverableIssuesWarnOrSkip ==
    [][/\ NoHeaderAhead => (pc' = "sheet" /\ si' = si + 1 /\ progress' = progress)
       /\ WarnedIssueAhead =>
            \/ /\ pc' # "done"
               /\ Len(progress') = Len(progress) + 1
               /\ progress'[Len(progress')].type = "warning"
               /\ (EmptyValueAhead => ri' = ri + 1)
               /\ (~EmptyValueAhead => si' = si + 1)
            \/ /\ pc' = "done"
               /\ result'.kind = "EventDeliveryFailure"
               /\ progress' = progress]_vars

\* a run that met a missing sheet and an empty value returned success
C8_Witness ==
    /\ pc = "done"
    /\ result.kind = "Ok"
    /\ Event("warning", "sheet_missing") \in ProgressEvents
    /\ Event("warning", "empty_value") \in ProgressEvents

\* C9 (as claimed): a run that wrote the archive removes the output directory
\* (or fails to) and returns success.
C9_RemovalFailureNotFatal ==
    (pc = "done" /\ disk.archive = "complete") =>
        /\ result.kind = "Ok"
        /\ io.op = "remove_dir_all"

\* C9 (amended): a run that wrote the archive and delivered the event saying
\* so removes the output directory; it returns success if the removal
\* succeeds, and if it fails, success after a warning, or the event-delivery
\* error when that warning is not delivered.  A run that wrote the archive and
\* could not deliver the event returns the event-delivery error and leaves the
\* directory.  The archive stays in either case.
C9_RemovalFailureWarns ==
    (pc = "done" /\ disk.archive = "complete") =>
        IF Event("success", "zipped") \in ProgressEvents
        THEN /\ io.op = "remove_dir_all"
             /\ io.ok => (result.kind = "Ok" /\ ~disk.output_dir)
             /\ ~io.ok =>
                  /\ disk.output_dir
                  /\ \/ /\ result.kind = "Ok"
                        /\ progress[Len(progress)] = Event("warning", "remove_failed")
                     \/ /\ result.kind = "EventDeliveryFailure"
                        /\ progress[Len(progress)] = Event("success", "zipped")
        ELSE result.kind = "EventDeliveryFailure" /\ disk.output_dir /\ io.op = "zip_directory"

\* the removal failed and the run returned success with the archive in place
C9_Witness ==
    /\ pc = "done"
    /\ disk.archive = "complete"
    /\ disk.output_dir
    /\ io = IoResult("remove_dir_all", FALSE)
    /\ result.kind = "Ok"

\* C10 (as claimed): the count a successful run returns is the number of
\* language files in the directory that was archived.
C10_CountIsNumberOfFiles ==
    (pc = "done" /\ result.kind = "Ok") => result.count = Cardinality(disk.entries)

====
